---- MODULE Spec2Model ----
(***************************************************************************)
(* Vistara-AI analytics pipeline: data_processor.load_and_merge_data,      *)
(* analytics.calculate_metrics / generate_forecast and the forecast block  *)
(* of the dashboard script app.py.                                         *)
(*                                                                         *)
(* Tables (pandas DataFrames) are sequences of records.  Text cells are    *)
(* strings handled character by character.  Parsed dates are day numbers   *)
(* YYYYMMDD, NaT is 0.  Floating point quantities (velocity, ratios,       *)
(* forecasts) are exact rationals [num, den] with den > 0; anomaly scores  *)
(* are integers in thousandths.                                            *)
(***************************************************************************)
EXTENDS Integers, Sequences, FiniteSets, TLC

VARIABLES pc, bio_df, demo_df, enrol_df, df_main, view

vars == <<pc, bio_df, demo_df, enrol_df, df_main, view>>

(***************************************************************************)
(* Bounds of the model.                                                    *)
(***************************************************************************)
MaxRaw == 2
MaxRows == 3
MaxDashRows == 3
MaxPeriods == 3
MaxPipeRaw == 1
MaxUnsortedRows == 2

(***************************************************************************)
(* Text helpers: str.strip(), str.upper(), str.match(r'^\d+$'), ordering.  *)
(***************************************************************************)
Alphabet == " &-0123456789ABCDEFGHIJKLMNOPQRSTUVWXYZabcdefghijklmnopqrstuvwxyz"

Digits == "0123456789"

UpperCase == "ABCDEFGHIJKLMNOPQRSTUVWXYZ"

LowerCase == "abcdefghijklmnopqrstuvwxyz"

CharAt(s, i) == SubSeq(s, i, i)

IndexIn(c, str) == IF \E i \in 1..Len(str) : CharAt(str, i) = c
                   THEN CHOOSE i \in 1..Len(str) : CharAt(str, i) = c
                   ELSE 0

CharsOf(str) == {CharAt(str, i) : i \in 1..Len(str)}

OrdTable == [c \in CharsOf(Alphabet) |-> IndexIn(c, Alphabet)]

Ord(c) == OrdTable[c]

UpperTable == [c \in CharsOf(LowerCase) |-> CharAt(UpperCase, IndexIn(c, LowerCase))]

IsSpace(c) == c = " "

UpperChar(c) == IF c \in DOMAIN UpperTable THEN UpperTable[c] ELSE c

RECURSIVE Upper(_)
Upper(s) == IF Len(s) = 0 THEN s
            ELSE UpperChar(CharAt(s, 1)) \o Upper(SubSeq(s, 2, Len(s)))

RECURSIVE LStrip(_)
LStrip(s) == IF Len(s) > 0 /\ IsSpace(CharAt(s, 1))
             THEN LStrip(SubSeq(s, 2, Len(s)))
             ELSE s

RECURSIVE RStrip(_)
RStrip(s) == IF Len(s) > 0 /\ IsSpace(CharAt(s, Len(s)))
             THEN RStrip(SubSeq(s, 1, Len(s) - 1))
             ELSE s

Strip(s) == RStrip(LStrip(s))

DigitTable == [c \in CharsOf(Digits) |-> IndexIn(c, Digits) - 1]

IsDigit(c) == c \in DOMAIN DigitTable

DigitVal(c) == DigitTable[c]

\* str.match(r'^\d+$')
IsNumeric(s) == Len(s) > 0 /\ \A i \in 1..Len(s) : IsDigit(CharAt(s, i))

RECURSIVE StrLess(_, _)
StrLess(a, b) ==
    IF Len(b) = 0 THEN FALSE
    ELSE IF Len(a) = 0 THEN TRUE
    ELSE IF CharAt(a, 1) = CharAt(b, 1)
         THEN StrLess(SubSeq(a, 2, Len(a)), SubSeq(b, 2, Len(b)))
         ELSE Ord(CharAt(a, 1)) < Ord(CharAt(b, 1))

(***************************************************************************)
(* pd.to_datetime(..., errors='coerce') on ISO "YYYY-MM-DD" text: the day  *)
(* is kept (no reduction to the month); anything else becomes NaT.         *)
(***************************************************************************)
NaT == 0

Num2(s, i) == DigitVal(CharAt(s, i)) * 10 + DigitVal(CharAt(s, i + 1))

DaysInMonth(y, m) ==
    IF m \in {4, 6, 9, 11} THEN 30
    ELSE IF m = 2
         THEN (IF (y % 4 = 0 /\ y % 100 # 0) \/ y % 400 = 0 THEN 29 ELSE 28)
         ELSE 31

to_datetime(s) ==
    IF /\ Len(s) = 10
       /\ CharAt(s, 5) = "-"
       /\ CharAt(s, 8) = "-"
       /\ \A i \in {1, 2, 3, 4, 6, 7, 9, 10} : IsDigit(CharAt(s, i))
    THEN LET y == Num2(s, 1) * 100 + Num2(s, 3)
             m == Num2(s, 6)
             d == Num2(s, 9)
         IN  IF y >= 1 /\ m \in 1..12 /\ d >= 1 /\ d <= DaysInMonth(y, m)
             THEN y * 10000 + m * 100 + d
             ELSE NaT
    ELSE NaT

MonthOf(date) == date \div 100

(***************************************************************************)
(* clean_state_name: strip, upper-case, alias table.                       *)
(***************************************************************************)
mapping ==
    [k \in {"WEST BANGAL", "WEST BENGLI", "WESTBENGAL", "WEST  BENGAL", "WB",
            "TAMILNADU", "ORISSA", "PONDICHERRY", "UTTARANCHAL", "CHHATISGARH",
            "ANDAMAN & NICOBAR ISLANDS", "A & N ISLANDS",
            "JAMMU & KASHMIR", "J & K",
            "DADRA & NAGAR HAVELI", "DADRA AND NAGAR HAVELI",
            "DAMAN & DIU", "DAMAN AND DIU",
            "THE DADRA AND NAGAR HAVELI AND DAMAN AND DIU",
            "LAKSHADWEEP"} |->
        CASE k \in {"WEST BANGAL", "WEST BENGLI", "WESTBENGAL", "WEST  BENGAL", "WB"}
               -> "WEST BENGAL"
          [] k = "TAMILNADU" -> "TAMIL NADU"
          [] k = "ORISSA" -> "ODISHA"
          [] k = "PONDICHERRY" -> "PUDUCHERRY"
          [] k = "UTTARANCHAL" -> "UTTARAKHAND"
          [] k = "CHHATISGARH" -> "CHHATTISGARH"
          [] k \in {"ANDAMAN & NICOBAR ISLANDS", "A & N ISLANDS"}
               -> "ANDAMAN AND NICOBAR ISLANDS"
          [] k \in {"JAMMU & KASHMIR", "J & K"} -> "JAMMU AND KASHMIR"
          [] k \in {"DADRA & NAGAR HAVELI", "DADRA AND NAGAR HAVELI",
                    "DAMAN & DIU", "DAMAN AND DIU",
                    "THE DADRA AND NAGAR HAVELI AND DAMAN AND DIU"}
               -> "DADRA AND NAGAR HAVELI AND DAMAN AND DIU"
          [] OTHER -> "LAKSHADWEEP"]

clean_state_name(state) ==
    LET s == Upper(Strip(state))
    IN  IF s \in DOMAIN mapping THEN mapping[s] ELSE s

(***************************************************************************)
(* Column schema of the three categories and of the merged table.          *)
(***************************************************************************)
BioCols == {"bio_age_5_17", "bio_age_17_"}

DemoCols == {"demo_age_5_17", "demo_age_17_"}

EnrolCols == {"age_0_5", "age_5_17", "age_18_greater"}

CounterCols == BioCols \cup DemoCols \cup EnrolCols

KeyCols == {"state", "district", "date"}

\* a missing numeric cell (NaN); counters themselves are counts >= 0
NaN == -1

Range(f) == {f[i] : i \in DOMAIN f}

KeyOf(r) == <<r.state, r.district, r.date>>

KeyRec(k) == [state |-> k[1], district |-> k[2], date |-> k[3]]

\* lexicographic order of sort_values(by=['state', 'district', 'date'])
KeyLess(a, b) ==
    IF a[1] # b[1] THEN StrLess(a[1], b[1])
    ELSE IF a[2] # b[2] THEN StrLess(a[2], b[2])
    ELSE a[3] < b[3]

RECURSIVE SortRows(_)
SortRows(S) ==
    IF S = {} THEN << >>
    ELSE LET m == CHOOSE r \in S : \A q \in S : ~KeyLess(KeyOf(q), KeyOf(r))
         IN  <<m>> \o SortRows(S \ {m})

RECURSIVE SumOver(_, _, _)
SumOver(df, I, c) ==
    IF I = {} THEN 0
    ELSE LET i == CHOOSE j \in I : TRUE
         IN  df[i][c] + SumOver(df, I \ {i}, c)

(***************************************************************************)
(* process_dataset: parse dates, standardise text, drop numeric states,    *)
(* apply clean_state_name.                                                 *)
(***************************************************************************)
StandardizeRow(r) ==
    [r EXCEPT !.date = to_datetime(r.date),
              !.state = Upper(Strip(r.state)),
              !.district = Upper(Strip(r.district))]

KeepRow_Any(r) == TRUE

KeepRow(r) == ~IsNumeric(r.state)

CleanRow_NoAlias(r) == r

CleanRow(r) == [r EXCEPT !.state = clean_state_name(r.state)]

process_dataset(df) ==
    IF Len(df) = 0 THEN df
    ELSE LET std == [i \in 1..Len(df) |-> StandardizeRow(df[i])]
             kept == SelectSeq(std, KeepRow)
         IN  [i \in 1..Len(kept) |-> CleanRow(kept[i])]

(***************************************************************************)
(* groupby(['state','district','date'])[cols].sum().reset_index(): rows    *)
(* whose key holds NaT fall out of the grouping (dropna), one row per key. *)
(***************************************************************************)
GroupKeys_KeepNaT(df) == {KeyOf(df[i]) : i \in 1..Len(df)}

GroupKeys(df) == {KeyOf(df[i]) : i \in {j \in 1..Len(df) : df[j].date # NaT}}

GroupSum(df, cols) ==
    IF Len(df) = 0 THEN << >>
    ELSE SortRows({ KeyRec(k) @@
                    [c \in cols |->
                       SumOver(df, {i \in 1..Len(df) : KeyOf(df[i]) = k}, c)]
                    : k \in GroupKeys(df) })

(***************************************************************************)
(* pd.merge(left, right, on=key, how='outer'), then fillna(0).             *)
(***************************************************************************)
RowWithKey(df, k) == CHOOSE r \in Range(df) : KeyOf(r) = k

HasKey(df, k) == \E r \in Range(df) : KeyOf(r) = k

CellOrNaN(df, k, c) == IF HasKey(df, k) THEN RowWithKey(df, k)[c] ELSE NaN

OuterMerge_Inner(left, lcols, right, rcols) ==
    SortRows({ KeyRec(k) @@ [c \in lcols |-> CellOrNaN(left, k, c)]
                         @@ [c \in rcols |-> CellOrNaN(right, k, c)]
               : k \in {KeyOf(r) : r \in Range(left)} \cap
                       {KeyOf(r) : r \in Range(right)} })

OuterMerge(left, lcols, right, rcols) ==
    SortRows({ KeyRec(k) @@ [c \in lcols |-> CellOrNaN(left, k, c)]
                         @@ [c \in rcols |-> CellOrNaN(right, k, c)]
               : k \in {KeyOf(r) : r \in Range(left) \cup Range(right)} })

fillna(df) ==
    [i \in 1..Len(df) |->
        [c \in DOMAIN df[i] |->
            IF c \in CounterCols /\ df[i][c] = NaN THEN 0 ELSE df[i][c]]]

sort_values_AsIs(df) == df

sort_values(df) == SortRows(Range(df))

load_and_merge_data(bio, demo, enrol) ==
    LET bio_agg == GroupSum(process_dataset(bio), BioCols)
        demo_agg == GroupSum(process_dataset(demo), DemoCols)
        enrol_agg == GroupSum(process_dataset(enrol), EnrolCols)
        m1 == OuterMerge(bio_agg, BioCols, demo_agg, DemoCols)
        m2 == OuterMerge(m1, BioCols \cup DemoCols, enrol_agg, EnrolCols)
    IN  sort_values(fillna(m2))

(***************************************************************************)
(* Raw input of the aggregator: the concatenated CSV rows of each category *)
(* as read by load_folder_csvs (text cells, counters as integers).         *)
(***************************************************************************)
RawStates == {"WESTBENGAL", "West Bengal ", "100000", "Bihar"}

RawDistricts == {"Howrah", " howrah"}

RawDates == {"2025-03-01", "2025-03-15", "bad"}

Categories == {"bio", "demo", "enrol"}

ColsOf(cat) == CASE cat = "bio" -> BioCols
                 [] cat = "demo" -> DemoCols
                 [] OTHER -> EnrolCols

\* counters of one raw row: distinct per column so that columns stay apart
RawCounters(cat) ==
    CASE cat = "bio" -> [bio_age_5_17 |-> 1, bio_age_17_ |-> 2]
      [] cat = "demo" -> [demo_age_5_17 |-> 3, demo_age_17_ |-> 4]
      [] OTHER -> [age_0_5 |-> 5, age_5_17 |-> 6, age_18_greater |-> 7]

RawUniverse ==
    { [cat |-> cat,
       row |-> [state |-> s, district |-> d, date |-> t] @@ RawCounters(cat)]
      : cat \in Categories, s \in RawStates, d \in RawDistricts,
        t \in RawDates }

RECURSIVE KSubsets(_, _)
KSubsets(U, k) ==
    IF k = 0 THEN {{}}
    ELSE LET smaller == KSubsets(U, k - 1)
         IN  smaller \cup {S \cup {x} : S \in smaller, x \in U}

RECURSIVE SetToSeq(_)
SetToSeq(S) ==
    IF S = {} THEN << >>
    ELSE LET x == CHOOSE y \in S : TRUE
         IN  <<x>> \o SetToSeq(S \ {x})

RawInputs == KSubsets(RawUniverse, MaxRaw)

RawOf(S, cat) == SetToSeq({x.row : x \in {y \in S : y.cat = cat}})

NoView == [outcome |-> "none"]

(***************************************************************************)
(* Aggregator run: load_and_merge_data() on the raw category tables.       *)
(***************************************************************************)
InitAgg ==
    /\ pc = "start"
    /\ \E S \in RawInputs :
          /\ bio_df = RawOf(S, "bio")
          /\ demo_df = RawOf(S, "demo")
          /\ enrol_df = RawOf(S, "enrol")
    /\ df_main = << >>
    /\ view = NoView

LoadAndMerge ==
    /\ pc = "start"
    /\ df_main' = load_and_merge_data(bio_df, demo_df, enrol_df)
    /\ pc' = "merged"
    /\ UNCHANGED <<bio_df, demo_df, enrol_df, view>>

NextAgg == LoadAndMerge

SpecAgg == InitAgg /\ [][NextAgg]_vars

(***************************************************************************)
(* calculate_metrics: totals, lagged velocity, ratios, anomaly annotation. *)
(***************************************************************************)
Rat(n, d) == [num |-> n, den |-> d]

RatEq(a, b) == a.num * b.den = b.num * a.den

RatLeq(a, b) == a.num * b.den <= b.num * a.den

SameGroup(a, b) == a.state = b.state /\ a.district = b.district

MaxOf(S) == CHOOSE x \in S : \A y \in S : y <= x

AddTotals_Overwrite(r) ==
    LET bio == r.bio_age_5_17 + r.bio_age_17_
        demo == r.demo_age_5_17 + r.demo_age_17_
    IN  [r EXCEPT !.bio_age_17_ = bio, !.demo_age_17_ = demo] @@
        [total_bio_updates |-> bio,
         total_demo_updates |-> demo,
         total_updates |-> bio + demo,
         total_enrolments |-> r.age_0_5 + r.age_5_17 + r.age_18_greater]

AddTotals(r) ==
    LET bio == r.bio_age_5_17 + r.bio_age_17_
        demo == r.demo_age_5_17 + r.demo_age_17_
    IN  r @@ [total_bio_updates |-> bio,
              total_demo_updates |-> demo,
              total_updates |-> bio + demo,
              total_enrolments |-> r.age_0_5 + r.age_5_17 + r.age_18_greater]

GroupShift_Ungrouped(df, i) ==
    IF i = 1 THEN NaN ELSE df[i - 1].total_updates

\* df.groupby(['state', 'district'])['total_updates'].shift(1)
GroupShift(df, i) ==
    LET before == {j \in 1..(i - 1) : SameGroup(df[j], df[i])}
    IN  IF before = {} THEN NaN ELSE df[MaxOf(before)].total_updates

\* .fillna(0) of the shifted column
PrevMonthUpdates(df, i) ==
    IF GroupShift(df, i) = NaN THEN 0 ELSE GroupShift(df, i)

Velocity_DenomOne(total, prev) ==
    Rat(total - prev, IF prev > 0 THEN prev ELSE 1)

\* np.where(prev > 0, (total - prev) / prev, 0.0)
Velocity(total, prev) ==
    IF prev > 0 THEN Rat(total - prev, prev) ELSE Rat(0, 1)

\* anomaly score threshold 0.1, in thousandths
RiskThreshold == 100

Outlier == -1

Inlier == 1

classify_risk_ScoreFirst(row) ==
    IF row.anomaly_score < RiskThreshold THEN "Medium"
    ELSE IF row.anomaly_label = Outlier THEN "High"
    ELSE "Low"

classify_risk(row) ==
    IF row.anomaly_label = Outlier THEN "High"
    ELSE IF row.anomaly_score < RiskThreshold THEN "Medium"
    ELSE "Low"

AddRisk(r) == r @@ [risk_level |-> classify_risk(r)]

\* iso[i] is what IsolationForest.fit_predict / decision_function give row i
calculate_metrics(df, iso) ==
    IF Len(df) = 0 THEN df
    ELSE LET sorted == sort_values(df)
             tot == [i \in 1..Len(sorted) |-> AddTotals(sorted[i])]
             met == [i \in 1..Len(tot) |->
                       LET prev == PrevMonthUpdates(tot, i)
                       IN  tot[i] @@
                           [prev_month_updates |-> prev,
                            velocity |-> Velocity(tot[i].total_updates, prev),
                            divergence_ratio |->
                               Rat(tot[i].total_demo_updates,
                                   tot[i].total_bio_updates + 1),
                            migration_index |->
                               Rat(tot[i].total_demo_updates,
                                   tot[i].total_enrolments + 1)]]
         IN  [i \in 1..Len(met) |->
                 AddRisk(met[i] @@ [anomaly_label |-> iso[i].label,
                                    anomaly_score |-> iso[i].score])]

(***************************************************************************)
(* IsolationForest(contamination=0.05, random_state=42): an external       *)
(* model; any labelling is possible, the label being -1 exactly when the   *)
(* decision function is negative.                                          *)
(***************************************************************************)
IsoOutputs == { [label |-> Outlier, score |-> -120],
                [label |-> Outlier, score |-> -50],
                [label |-> Inlier, score |-> 50],
                [label |-> Inlier, score |-> 150] }

(***************************************************************************)
(* Aggregated tables as load_and_merge_data returns them: canonical names, *)
(* one row per key, sorted, counters >= 0.                                 *)
(***************************************************************************)
Regions == { <<"BIHAR", "AURANGABAD">>,
             <<"MAHARASHTRA", "AURANGABAD">>,
             <<"MAHARASHTRA", "PUNE">> }

Dates == {20250301, 20250401, 20250501}

\* PUNE reports in one month only, BIHAR / AURANGABAD in two
Keys == { <<g[1], g[2], d>> : g \in Regions, d \in Dates } \
        { <<"MAHARASHTRA", "PUNE", 20250301>>, <<"MAHARASHTRA", "PUNE", 20250501>>,
          <<"BIHAR", "AURANGABAD", 20250501>> }

Profiles ==
    { [bio_age_5_17 |-> 0, bio_age_17_ |-> 0, demo_age_5_17 |-> 0,
       demo_age_17_ |-> 0, age_0_5 |-> 5, age_5_17 |-> 0, age_18_greater |-> 0],
      [bio_age_5_17 |-> 30, bio_age_17_ |-> 20, demo_age_5_17 |-> 10,
       demo_age_17_ |-> 40, age_0_5 |-> 1, age_5_17 |-> 2, age_18_greater |-> 3],
      [bio_age_5_17 |-> 50, bio_age_17_ |-> 25, demo_age_5_17 |-> 30,
       demo_age_17_ |-> 45, age_0_5 |-> 0, age_5_17 |-> 0, age_18_greater |-> 0] }

Tables(maxRows) ==
    UNION { { SortRows({KeyRec(k) @@ f[k] : k \in S}) : f \in [S -> Profiles] }
            : S \in KSubsets(Keys, maxRows) }

(***************************************************************************)
(* Metric run: calculate_metrics on an aggregated table.                   *)
(***************************************************************************)
Init ==
    /\ pc = "merged"
    /\ bio_df = << >>
    /\ demo_df = << >>
    /\ enrol_df = << >>
    /\ df_main \in Tables(MaxRows)
    /\ view = NoView

CalculateMetrics ==
    /\ pc = "merged"
    /\ \E iso \in [1..Len(df_main) -> IsoOutputs] :
          df_main' = calculate_metrics(df_main, iso)
    /\ pc' = "analyzed"
    /\ UNCHANGED <<bio_df, demo_df, enrol_df, view>>

Next == CalculateMetrics

Spec == Init /\ [][Next]_vars

(***************************************************************************)
(* generate_forecast: np.polyfit(x, y, 1) as the exact least-squares line  *)
(* over x = 0 .. n-1, evaluated at n .. n+periods-1.                       *)
(***************************************************************************)
DefaultPeriods == 3

DistrictRows(df, district_name) ==
    LET Sel(r) == r.district = district_name
    IN  SelectSeq(df, Sel)

\* .sort_values('date'): rows of equal date may come out in either order
DateSortings(rows) ==
    LET n == Len(rows)
        perms == {f \in [1..n -> 1..n] : \A i, j \in 1..n : i # j => f[i] # f[j]}
    IN  { [i \in 1..n |-> rows[f[i]]] :
            f \in {g \in perms : \A i \in 1..(n - 1) :
                                    rows[g[i]].date <= rows[g[i + 1]].date} }

RECURSIVE SumSeq(_, _)
SumSeq(f, n) == IF n = 0 THEN 0 ELSE f[n] + SumSeq(f, n - 1)

\* least-squares line through (i - 1, y[i]); coefficients over one denominator
polyfit(y) ==
    LET n == Len(y)
        Sx == SumSeq([i \in 1..n |-> i - 1], n)
        Sxx == SumSeq([i \in 1..n |-> (i - 1) * (i - 1)], n)
        Sy == SumSeq(y, n)
        Sxy == SumSeq([i \in 1..n |-> (i - 1) * y[i]], n)
    IN  [slope |-> n * Sxy - Sx * Sy,
         intercept |-> Sy * Sxx - Sx * Sxy,
         den |-> n * Sxx - Sx * Sx]

poly1d(p, x) == Rat(p.intercept + p.slope * x, p.den)

NoForecast == [kind |-> "None"]

generate_forecast_OneRow(district_df, periods) ==
    IF Len(district_df) < 1 THEN NoForecast
    ELSE LET y == [i \in 1..Len(district_df) |-> district_df[i].total_updates]
             p == polyfit(y)
             future_x == [k \in 1..periods |-> Len(y) + k - 1]
         IN  [kind |-> "tuple",
              forecast_y |-> [k \in 1..periods |-> poly1d(p, future_x[k])],
              p |-> p]

generate_forecast(district_df, periods) ==
    IF Len(district_df) < 2 THEN NoForecast
    ELSE LET y == [i \in 1..Len(district_df) |-> district_df[i].total_updates]
             p == polyfit(y)
             future_x == [k \in 1..periods |-> Len(y) + k - 1]
         IN  [kind |-> "tuple",
              forecast_y |-> [k \in 1..periods |-> poly1d(p, future_x[k])],
              p |-> p]

(***************************************************************************)
(* Dashboard script (app.py), tab 2 forecast block.                        *)
(***************************************************************************)
SliderMax == 10

\* capacity_factor = 0.02, in percent
CapacityFactorPct == 2

RiskOptions == {"High", "Medium", "Low"}

AdjustValue_Increase(v, new_centers) ==
    Rat(v.num * (100 + new_centers * CapacityFactorPct), v.den * 100)

\* forecast * (1.0 - new_centers * capacity_factor)
AdjustValue(v, new_centers) ==
    Rat(v.num * (100 - new_centers * CapacityFactorPct), v.den * 100)

\* sidebar filters: date range, state multiselect, risk multiselect
FilterDate(df, start_date, end_date) ==
    LET In(r) == r.date >= start_date /\ r.date <= end_date
    IN  SelectSeq(df, In)

FilterStates(df, selected_states) ==
    LET In(r) == r.state \in selected_states
    IN  IF selected_states # {} THEN SelectSeq(df, In) ELSE df

FilterRisks(df, selected_risks) ==
    LET In(r) == r.risk_level \in selected_risks
    IN  IF selected_risks # {} THEN SelectSeq(df, In) ELSE df

FilteredTables(df) ==
    LET dates == {r.date : r \in Range(df)}
        ranges == {dr \in dates \X dates : dr[1] <= dr[2]}
        ByDate(dr) == FilterDate(df, dr[1], dr[2])
    IN  UNION { UNION { { FilterRisks(FilterStates(ByDate(dr), ss), sr)
                          : sr \in SUBSET RiskOptions }
                        : ss \in SUBSET {r.state : r \in Range(ByDate(dr))} }
                : dr \in ranges }

\* anomalies = df_filtered[risk_level == 'High'].sort_values('anomaly_score');
\* iloc[0] is a High row of least score (any of them on a tie)
TopAnomalies(df_filtered) ==
    LET high == {r \in Range(df_filtered) : r.risk_level = "High"}
    IN  {r \in high : \A q \in high : r.anomaly_score <= q.anomaly_score}

NoTarget == "<none>"

TargetChoices(df) ==
    UNION { IF TopAnomalies(f) = {} THEN {NoTarget}
            ELSE {r.district : r \in TopAnomalies(f)}
            : f \in FilteredTables(df) }

View(outcome, target, n, fc, adj, hist) ==
    [outcome |-> outcome, target_district |-> target, new_centers |-> n,
     forecast_y |-> fc, adjusted_forecast_y |-> adj, y_hist |-> hist]

ForecastBlock_AdjustHistory(district_df, target, new_centers) ==
    LET ret == generate_forecast(district_df, DefaultPeriods)
    IN  IF ret.kind = "None"
        THEN View("error", target, new_centers, << >>, << >>, << >>)
        ELSE View("forecast", target, new_centers, ret.forecast_y,
                  [k \in 1..Len(ret.forecast_y) |->
                      AdjustValue(ret.forecast_y[k], new_centers)],
                  [i \in 1..Len(district_df) |->
                      (district_df[i].total_updates *
                       (100 - new_centers * CapacityFactorPct)) \div 100])

\* forecast_y, p = generate_forecast(df_main, target_district, periods=3)
\* followed by the if / else on forecast_y
ForecastBlock(district_df, target, new_centers) ==
    LET ret == generate_forecast(district_df, DefaultPeriods)
    IN  IF ret.kind = "None"
        THEN \* unpacking None raises TypeError before the test is reached
             View("error", target, new_centers, << >>, << >>, << >>)
        ELSE View("forecast", target, new_centers, ret.forecast_y,
                  [k \in 1..Len(ret.forecast_y) |->
                      AdjustValue(ret.forecast_y[k], new_centers)],
                  [i \in 1..Len(district_df) |-> district_df[i].total_updates])

DashboardRun ==
    /\ pc = "analyzed"
    /\ IF Len(df_main) = 0
       THEN view' = View("no_data", NoTarget, 0, << >>, << >>, << >>)
       ELSE \E target \in TargetChoices(df_main) :
               IF target = NoTarget
               THEN view' = View("no_anomalies", NoTarget, 0, << >>, << >>, << >>)
               ELSE \E new_centers \in 0..SliderMax :
                    \E district_df \in DateSortings(DistrictRows(df_main, target)) :
                       view' = ForecastBlock(district_df, target, new_centers)
    /\ pc' = "rendered"
    /\ UNCHANGED <<bio_df, demo_df, enrol_df, df_main>>

\* a direct call generate_forecast(df, district_name, periods)
DistrictNames == {"AURANGABAD", "PUNE", "NAGPUR"}

ForecastCall ==
    /\ pc = "analyzed"
    /\ \E district_name \in DistrictNames, periods \in 1..MaxPeriods :
       \E district_df \in DateSortings(DistrictRows(df_main, district_name)) :
          view' = [outcome |-> "returned", district_name |-> district_name,
                   periods |-> periods, n_rows |-> Len(district_df),
                   history |-> [i \in 1..Len(district_df) |->
                                   KeyOf(district_df[i])],
                   ret |-> generate_forecast(district_df, periods)]
    /\ pc' = "returned"
    /\ UNCHANGED <<bio_df, demo_df, enrol_df, df_main>>

\* a widget interaction reruns the script from the cached get_data() table
Rerun ==
    /\ pc \in {"rendered", "returned"}
    /\ pc' = "analyzed"
    /\ view' = NoView
    /\ UNCHANGED <<bio_df, demo_df, enrol_df, df_main>>

DashKeys == { <<"BIHAR", "AURANGABAD", 20250301>>,
              <<"MAHARASHTRA", "AURANGABAD", 20250301>>,
              <<"MAHARASHTRA", "AURANGABAD", 20250401>>,
              <<"MAHARASHTRA", "PUNE", 20250401>> }

DashTables ==
    UNION { { SortRows({KeyRec(k) @@ f[k] : k \in S}) : f \in [S -> Profiles] }
            : S \in KSubsets(DashKeys, MaxDashRows) }

InitDash ==
    /\ pc = "merged"
    /\ bio_df = << >>
    /\ demo_df = << >>
    /\ enrol_df = << >>
    /\ df_main \in DashTables
    /\ view = NoView

NextDash == CalculateMetrics \/ DashboardRun \/ ForecastCall \/ Rerun

SpecDash == InitDash /\ [][NextDash]_vars

(***************************************************************************)
(* Risk tier run: df.apply(classify_risk, axis=1) on scored rows.          *)
(***************************************************************************)
ScoreSamples == {-50, 0, 99, 100, 150}

ScoredRows == { [anomaly_label |-> l, anomaly_score |-> sc]
                : l \in {Outlier, Inlier}, sc \in ScoreSamples }

InitRisk ==
    /\ pc = "scored"
    /\ bio_df = << >>
    /\ demo_df = << >>
    /\ enrol_df = << >>
    /\ df_main \in {<<a, b>> : a \in ScoredRows, b \in ScoredRows}
    /\ view = NoView

ClassifyRisk ==
    /\ pc = "scored"
    /\ df_main' = [i \in 1..Len(df_main) |-> AddRisk(df_main[i])]
    /\ pc' = "classified"
    /\ UNCHANGED <<bio_df, demo_df, enrol_df, view>>

NextRisk == ClassifyRisk

SpecRisk == InitRisk /\ [][NextRisk]_vars

(***************************************************************************)
(* Properties.                                                             *)
(***************************************************************************)
Rows == 1..Len(df_main)

FirstOfGroup(i) ==
    ~\E j \in Rows : SameGroup(df_main[j], df_main[i])
                     /\ df_main[j].date < df_main[i].date

\* the row of the same group with the latest earlier date
Predecessor(i) ==
    CHOOSE j \in Rows :
        /\ SameGroup(df_main[j], df_main[i])
        /\ df_main[j].date < df_main[i].date
        /\ \A q \in Rows : SameGroup(df_main[q], df_main[i])
                           /\ df_main[q].date < df_main[i].date
                           => df_main[q].date <= df_main[j].date

\* C1: after calculate_metrics every row with prev_month_updates = 0 has
\* velocity 0 whatever its total_updates; this holds for the first row of
\* each (state, district) group and for later rows whose predecessor had
\* total_updates 0.
C1_VelocityZeroWithoutPrev ==
    pc = "analyzed" =>
        \A i \in Rows :
            /\ df_main[i].prev_month_updates = 0 => df_main[i].velocity.num = 0
            /\ FirstOfGroup(i) => df_main[i].velocity.num = 0
            /\ (~FirstOfGroup(i) /\ df_main[Predecessor(i)].total_updates = 0)
                  => df_main[i].velocity.num = 0

C1_Witness ==
    /\ pc = "analyzed"
    /\ \E i \in Rows :
          /\ ~FirstOfGroup(i)
          /\ df_main[Predecessor(i)].total_updates = 0
          /\ df_main[i].total_updates > 0
          /\ df_main[i].prev_month_updates = 0
          /\ df_main[i].velocity.num = 0

\* C2: every row that is not the first of its (state, district) group in
\* date order has prev_month_updates equal to the total_updates of the
\* immediately preceding row of the same group, and when that is > 0 its
\* velocity is (total_updates - prev_month_updates) / prev_month_updates;
\* the first row of a group has prev_month_updates 0; another group's rows
\* never supply the value.
C2_LagWithinGroup ==
    pc = "analyzed" =>
        \A i \in Rows :
            IF FirstOfGroup(i)
            THEN df_main[i].prev_month_updates = 0
            ELSE LET prev == df_main[Predecessor(i)].total_updates
                 IN  /\ df_main[i].prev_month_updates = prev
                     /\ prev > 0 =>
                           RatEq(df_main[i].velocity,
                                 Rat(df_main[i].total_updates - prev, prev))

\* totals [100, 150] of one group, right after a row of another group
C2_Witness ==
    /\ pc = "analyzed"
    /\ \E i \in Rows :
          /\ i >= 3
          /\ SameGroup(df_main[i], df_main[i - 1])
          /\ ~SameGroup(df_main[i - 1], df_main[i - 2])
          /\ df_main[i - 2].total_updates > 0
          /\ df_main[i - 1].total_updates = 100
          /\ df_main[i - 1].prev_month_updates = 0
          /\ df_main[i - 1].velocity.num = 0
          /\ df_main[i].total_updates = 150
          /\ df_main[i].prev_month_updates = 100
          /\ RatEq(df_main[i].velocity, Rat(1, 2))

\* C3: the risk tier of a row depends only on (anomaly_label,
\* anomaly_score): label -1 gives High whatever the score, otherwise a
\* score below 0.1 gives Medium, otherwise Low; each row gets exactly one
\* of the three tiers and equal (label, score) give equal tiers.
C3_RiskPrecedence ==
    pc = "classified" =>
        /\ \A i \in Rows :
              /\ df_main[i].risk_level \in RiskOptions
              /\ df_main[i].anomaly_label = -1 => df_main[i].risk_level = "High"
              /\ (df_main[i].anomaly_label # -1 /\ df_main[i].anomaly_score < 100)
                    => df_main[i].risk_level = "Medium"
              /\ (df_main[i].anomaly_label # -1 /\ df_main[i].anomaly_score >= 100)
                    => df_main[i].risk_level = "Low"
        /\ \A i, j \in Rows :
              (/\ df_main[i].anomaly_label = df_main[j].anomaly_label
               /\ df_main[i].anomaly_score = df_main[j].anomaly_score)
              => df_main[i].risk_level = df_main[j].risk_level

\* an outlier whose score is above the threshold next to an inlier below it
C3_Witness ==
    /\ pc = "classified"
    /\ df_main[1].anomaly_label = -1
    /\ df_main[1].anomaly_score = 150
    /\ df_main[1].risk_level = "High"
    /\ df_main[2].anomaly_label = 1
    /\ df_main[2].anomaly_score = 99
    /\ df_main[2].risk_level = "Medium"

RowsOfDistrict(name) == {i \in Rows : df_main[i].district = name}

\* C4: generate_forecast returns None for a district with 0 or 1 rows and,
\* for 2 or more rows, a forecast of length periods (3 by default, as the
\* dashboard asks) whose k-th value is the fitted line at index
\* len(history) + k - 1.
C4_ForecastShape ==
    /\ (pc = "returned" =>
          LET n == Cardinality(RowsOfDistrict(view.district_name))
          IN  IF n < 2
              THEN view.ret = NoForecast
              ELSE /\ view.ret.kind = "tuple"
                   /\ Len(view.ret.forecast_y) = view.periods
                   /\ \A k \in 1..view.periods :
                         view.ret.forecast_y[k] = poly1d(view.ret.p, n + k - 1))
    /\ (pc = "rendered" /\ view.outcome = "forecast" =>
          Len(view.forecast_y) = 3)

C4_Witness ==
    /\ pc = "returned"
    /\ Cardinality(RowsOfDistrict(view.district_name)) = 1
    /\ view.ret = NoForecast

\* C5 as stated: for any base forecast value the adjusted forecast
\* base * (1 - N * 0.02) does not increase with N, and N = 0 gives the base.
C5_MonotoneAnyBase ==
    (pc = "rendered" /\ view.outcome = "forecast") =>
        \A k \in 1..Len(view.forecast_y) :
            /\ \A m \in 0..view.new_centers :
                  RatLeq(view.adjusted_forecast_y[k],
                         AdjustValue(view.forecast_y[k], m))
            /\ view.new_centers = 0 =>
                  RatEq(view.adjusted_forecast_y[k], view.forecast_y[k])

\* C5 amended: for a base forecast value >= 0 the adjusted forecast does
\* not increase with N; for every base value N = 0 gives the base exactly.
C5_MonotoneNonNegativeBase ==
    (pc = "rendered" /\ view.outcome = "forecast") =>
        \A k \in 1..Len(view.forecast_y) :
            /\ view.forecast_y[k].num >= 0 =>
                  \A m \in 0..view.new_centers :
                      RatLeq(view.adjusted_forecast_y[k],
                             AdjustValue(view.forecast_y[k], m))
            /\ view.new_centers = 0 =>
                  RatEq(view.adjusted_forecast_y[k], view.forecast_y[k])

C5_Witness ==
    /\ pc = "rendered"
    /\ view.outcome = "forecast"
    /\ view.new_centers = 10
    /\ view.forecast_y[1].num > 0
    /\ ~RatLeq(view.forecast_y[1], view.adjusted_forecast_y[1])

\* C6 as stated: when the dashboard's forecast target has fewer than 2 rows
\* in the full table the run ends in the 'Not enough data to forecast.'
\* warning, never in an error.
C6_InsufficientDataWarns ==
    (/\ pc = "rendered"
     /\ view.target_district # NoTarget
     /\ Cardinality(RowsOfDistrict(view.target_district)) < 2)
    => view.outcome = "not_enough_data"

(***************************************************************************)
(* Aggregator properties: raw rows against the merged table.               *)
(***************************************************************************)
RawOfCat(cat) == CASE cat = "bio" -> bio_df
                   [] cat = "demo" -> demo_df
                   [] OTHER -> enrol_df

RawCells == UNION { { [cat |-> cat, idx |-> i, row |-> RawOfCat(cat)[i]]
                      : i \in 1..Len(RawOfCat(cat)) } : cat \in Categories }

Canonical(state) ==
    LET u == Upper(Strip(state))
    IN  IF u \in DOMAIN mapping THEN mapping[u] ELSE u

Corrupt(r) == IsNumeric(Strip(r.state)) \/ to_datetime(r.date) = NaT

\* the region key a raw row stands for, spelling variants removed
RawKey(r) == <<Canonical(r.state), Upper(Strip(r.district)), to_datetime(r.date)>>

TableKey(r) == <<Canonical(r.state), Upper(Strip(r.district)), r.date>>

RECURSIVE SumCells(_, _)
SumCells(S, c) ==
    IF S = {} THEN 0
    ELSE LET x == CHOOSE y \in S : TRUE
         IN  x.row[c] + SumCells(S \ {x}, c)

\* C7: usable raw rows of any categories whose states differ only by
\* surrounding whitespace, case or a known alias and whose district (trimmed,
\* upper-cased) and date are equal end up in one single table row that
\* carries the counters of both.
C7_AliasesMergeIntoOneRow ==
    pc = "merged" =>
        \A cells \in { { [cat |-> x.cat, idx |-> x.idx, row |-> x.row,
                           key |-> RawKey(x.row)]
                         : x \in {y \in RawCells : ~Corrupt(y.row)} } } :
        \A x, y \in cells :
            (x # y /\ x.key = y.key)
            => \A T \in { {i \in Rows : TableKey(df_main[i]) = x.key} } :
                  /\ Cardinality(T) = 1
                  /\ \A i \in T : \A z \in {x, y} : \A c \in ColsOf(z.cat) :
                        /\ df_main[i][c] =
                              SumCells({w \in cells : w.cat = z.cat /\ w.key = x.key}, c)
                        /\ df_main[i][c] >= z.row[c]

\* "WESTBENGAL" in a demographic file, "West Bengal " in a biometric file
C7_Witness ==
    /\ pc = "merged"
    /\ \E i \in 1..Len(demo_df), j \in 1..Len(bio_df) :
          /\ demo_df[i].state = "WESTBENGAL"
          /\ bio_df[j].state = "West Bengal "
          /\ demo_df[i].district # bio_df[j].district
          /\ demo_df[i].date = "2025-03-01"
          /\ bio_df[j].date = "2025-03-01"
    /\ Len(df_main) = 1
    /\ df_main[1].state = "WEST BENGAL"
    /\ df_main[1].demo_age_17_ = 4
    /\ df_main[1].bio_age_5_17 = 1

Processed(cat) == process_dataset(RawOfCat(cat))

\* C8: every (state, district, date) key of at least one category aggregate
\* is in exactly one table row; each counter of the row is the sum of that
\* counter over the category's rows with that key, 0 when there are none
\* (also when the category has no rows at all).
C8_OuterJoinZeroFilled ==
    pc = "merged" =>
        \A P \in {[cat \in Categories |-> Processed(cat)]} :
        \A k \in UNION {GroupKeys(P[cat]) : cat \in Categories} :
            /\ Cardinality({i \in Rows : KeyOf(df_main[i]) = k}) = 1
            /\ \A i \in {j \in Rows : KeyOf(df_main[j]) = k} :
                  \A cat \in Categories : \A c \in ColsOf(cat) :
                     LET hits == {j \in 1..Len(P[cat]) : KeyOf(P[cat][j]) = k}
                     IN  /\ df_main[i][c] = SumOver(P[cat], hits, c)
                         /\ hits = {} => df_main[i][c] = 0

\* a key present in two categories while the biometric category is empty
C8_Witness ==
    /\ pc = "merged"
    /\ Len(bio_df) = 0
    /\ \E i \in Rows :
          /\ df_main[i].demo_age_5_17 > 0
          /\ df_main[i].age_0_5 > 0
          /\ df_main[i].bio_age_5_17 = 0
          /\ df_main[i].bio_age_17_ = 0

\* C9 as stated: the table holds at most one row per (state, district) and
\* calendar month, dates being reduced to the month before grouping.
C9_OneRowPerRegionMonth ==
    pc = "merged" =>
        \A i, j \in Rows :
            (/\ SameGroup(df_main[i], df_main[j])
             /\ MonthOf(df_main[i].date) = MonthOf(df_main[j].date))
            => i = j

Usable(r) == ~Corrupt(r)

InitPipe ==
    /\ pc = "start"
    /\ \E S \in KSubsets(RawUniverse, MaxPipeRaw) :
          /\ bio_df = RawOf(S, "bio")
          /\ demo_df = RawOf(S, "demo")
          /\ enrol_df = RawOf(S, "enrol")
    /\ df_main = << >>
    /\ view = NoView

NextPipe == LoadAndMerge \/ CalculateMetrics \/ DashboardRun \/ Rerun

SpecPipe == InitPipe /\ [][NextPipe]_vars

\* no category has a row that survives cleaning and grouping
NoUsableRows == \A x \in RawCells : Corrupt(x.row)

C12_HistoryOfOneRegion ==
    pc = "returned" =>
        /\ \A i, j \in DOMAIN view.history :
              /\ view.history[i][1] = view.history[j][1]
              /\ view.history[i][2] = view.history[j][2]
        /\ \A i, j \in DOMAIN view.history :
              i < j => view.history[i][3] <= view.history[j][3]

\* columns calculate_metrics adds to a row
DerivedCols == {"total_bio_updates", "total_demo_updates", "total_updates",
                "total_enrolments", "prev_month_updates", "velocity",
                "divergence_ratio", "migration_index", "anomaly_label",
                "anomaly_score", "risk_level"}

\* row r of the output carries the key and the seven counters of row q of
\* the input, and nothing but derived columns on top
SameAggregatedRow(q, r) ==
    /\ KeyOf(r) = KeyOf(q)
    /\ \A c \in CounterCols : r[c] = q[c]
    /\ DOMAIN q \subseteq DOMAIN r
    /\ (DOMAIN r) \ (DOMAIN q) \subseteq DerivedCols

\* C13: calculate_metrics removes no rows and adds none: the output has
\* exactly the (state, district, date) keys of the input, each once, the
\* seven aggregated counters of each row are unchanged, and only derived
\* and annotation columns are added.
C13_RowsAndCountersPreserved ==
    [][ (pc = "merged" /\ pc' = "analyzed") =>
          /\ Len(df_main') = Len(df_main)
          /\ \A i \in 1..Len(df_main) :
                Cardinality({j \in 1..Len(df_main') :
                                SameAggregatedRow(df_main[i], df_main'[j])}) = 1
          /\ \A j \in 1..Len(df_main') :
                \E i \in 1..Len(df_main) :
                    SameAggregatedRow(df_main[i], df_main'[j]) ]_vars

\* three annotated rows, two of them of one region key
C13_Witness ==
    /\ pc = "analyzed"
    /\ Len(df_main) = 3
    /\ \A i \in Rows : DerivedCols \subseteq DOMAIN df_main[i]
    /\ \E i, j \in Rows : i # j /\ SameGroup(df_main[i], df_main[j])
    /\ \E i \in Rows : df_main[i].bio_age_17_ > 0

(***************************************************************************)
(* The two table producers called on their own: load_and_merge_data on raw *)
(* category tables, and calculate_metrics on a frame the caller holds in   *)
(* any row order; the caller's frame is not rebound by the call.           *)
(***************************************************************************)
Orderings(T) ==
    LET n == Len(T)
        perms == {f \in [1..n -> 1..n] : \A i, j \in 1..n : i # j => f[i] # f[j]}
    IN  { [i \in 1..n |-> T[f[i]]] : f \in perms }

UnsortedTables == UNION { Orderings(T) : T \in Tables(MaxUnsortedRows) }

InitOrder ==
    \/ InitAgg
    \/ /\ pc = "merged"
       /\ bio_df = << >>
       /\ demo_df = << >>
       /\ enrol_df = << >>
       /\ df_main \in UnsortedTables
       /\ view = NoView

MetricsCall ==
    /\ pc = "merged"
    /\ \E iso \in [1..Len(df_main) -> IsoOutputs] :
          view' = [outcome |-> "metrics", ret |-> calculate_metrics(df_main, iso)]
    /\ pc' = "returned"
    /\ UNCHANGED <<bio_df, demo_df, enrol_df, df_main>>

NextOrder == LoadAndMerge \/ MetricsCall

SpecOrder == InitOrder /\ [][NextOrder]_vars

IsSorted(df) ==
    \A i \in 1..(Len(df) - 1) : ~KeyLess(KeyOf(df[i + 1]), KeyOf(df[i]))

\* rows of df in the group of row i with an earlier date
EarlierInGroup(df, i) ==
    {j \in 1..Len(df) : SameGroup(df[j], df[i]) /\ df[j].date < df[i].date}

\* prev_month_updates of every row is the total_updates of the row of its
\* group with the latest earlier date, 0 when the group has none
LagFollowsDate(df) ==
    \A i \in 1..Len(df) :
        LET E == EarlierInGroup(df, i)
        IN  IF E = {} THEN df[i].prev_month_updates = 0
            ELSE \E j \in E :
                    /\ \A k \in E : df[k].date <= df[j].date
                    /\ df[i].prev_month_updates = df[j].total_updates

\* C14: the table load_and_merge_data returns is sorted ascending by
\* (state, district, date); calculate_metrics returns a table in that order
\* whatever the order of its input, and the lag of every row is taken from
\* the row of its (state, district) group that precedes it in date.
C14_SortedBeforeLag ==
    [][ /\ pc = "start" => IsSorted(df_main')
        /\ pc = "merged" => /\ IsSorted(view'.ret)
                            /\ LagFollowsDate(view'.ret) ]_vars

\* calculate_metrics was called on two rows of one region, later date first
C14_Witness ==
    /\ pc = "returned"
    /\ view.outcome = "metrics"
    /\ Len(df_main) = 2
    /\ SameGroup(df_main[1], df_main[2])
    /\ df_main[1].date > df_main[2].date
    /\ view.ret[1].date < view.ret[2].date
    /\ view.ret[2].prev_month_updates = view.ret[1].total_updates
    /\ view.ret[1].total_updates > 0

\* y is the total_updates column of the table's rows of the district, each
\* row once, in ascending date order
HistoryOfTable(district, y) ==
    /\ Len(y) = Cardinality(RowsOfDistrict(district))
    /\ \E f \in [1..Len(y) -> RowsOfDistrict(district)] :
          /\ \A i, j \in 1..Len(y) : i # j => f[i] # f[j]
          /\ \A i \in 1..(Len(y) - 1) :
                df_main[f[i]].date <= df_main[f[i + 1]].date
          /\ \A i \in 1..Len(y) : y[i] = df_main[f[i]].total_updates

\* C15: no generate_forecast call, dashboard run or rerun changes the
\* annotated table, and the intervention multiplier touches the projected
\* values only: for every number of new centres the plotted history is the
\* table's total_updates of the target district, and one adjusted value is
\* produced per projected value.
C15_SnapshotUntouchedHistoryUnadjusted ==
    [][ /\ pc \in {"analyzed", "rendered", "returned"} => df_main' = df_main
        /\ (pc = "analyzed" /\ pc' = "rendered" /\ view'.outcome = "forecast")
              => /\ HistoryOfTable(view'.target_district, view'.y_hist)
                 /\ Len(view'.adjusted_forecast_y) = Len(view'.forecast_y)
      ]_vars

\* a forecast drawn with centres deployed over a history that is not all 0
C15_Witness ==
    /\ pc = "rendered"
    /\ view.outcome = "forecast"
    /\ view.new_centers \in 1..(SliderMax - 1)
    /\ \E i \in DOMAIN view.y_hist : view.y_hist[i] > 0
    /\ view.adjusted_forecast_y # view.forecast_y

====
